---- MODULE Spec2Model ----
(***************************************************************************)
(* Model of the rendered-line buffer of flow (src/src/ui/rendered_line.rs):*)
(* RenderedLine, RenderedLineCollection, MatchedLine and the Height and    *)
(* FindMatch iterator adaptors.                                            *)
(*                                                                         *)
(* Conventions.  An Option<T> is a sequence of length at most one: None is *)
(* <<>> and Some(x) is <<x>>.  A Vec is a TLA+ sequence; the code's        *)
(* indices are 0-based, so entry i of the code is entries[i + 1] here.     *)
(* A call that panics (unwrap of None, index out of range) is recorded as  *)
(* outcome = "panic".                                                      *)
(***************************************************************************)
EXTENDS Integers, Sequences, FiniteSets, TLC

VARIABLES
    entries,    \* RenderedLineCollection.entries
    width,      \* the container width the lines are wrapped and searched at
    op,         \* the last operation called
    arg,        \* its arguments
    ret,        \* its return value, as an Option
    outcome,    \* "ok" or "panic"
    repaints,   \* number of RenderedLine::print calls made by the last call
    subset      \* the collection matching() returned, while the caller holds it

vars == <<entries, width, op, arg, ret, outcome, repaints, subset>>

(***************************************************************************)
(* Bounds of the model.                                                    *)
(***************************************************************************)
MaxLen == 3             \* records in the buffer
MaxWidth == 2           \* container widths 1..MaxWidth
MaxReverseIndex == 2    \* viewport.reverse_index in 0..MaxReverseIndex
MaxRows == 4            \* visible rows of a viewport in 0..MaxRows
MaxMatchIndex == 1      \* match indices a caller passes in 0..MaxMatchIndex
MaxAnyLen == 2          \* records in the buffer when any matches are passed

Texts == { <<"a">>, <<"a", "b">> }
Needles == { <<>>, <<"a">>, <<"b">>, <<"a", "b">> }

None == <<>>
Some(x) == <<x>>

Min(a, b) == IF a <= b THEN a ELSE b

(***************************************************************************)
(* Collaborators of the buffer: the line's substring test, the wrapping    *)
(* that yields a record's height, the highlighter and the viewport.        *)
(***************************************************************************)
\* Byte positions at which needle occurs in text (0-based).
Occurrences(text, needle) ==
    { p \in 0..(Len(text) - Len(needle)) :
        \A k \in 1..Len(needle) : text[p + k] = needle[k] }

\* Line::contains: literal, case-sensitive substring containment.
contains(text, needle) == Occurrences(text, needle) # {}

\* Rows a line occupies when wrapped at width w (at least one).
WrapHeight(text, w) ==
    IF Len(text) = 0 THEN 1 ELSE (Len(text) + w - 1) \div w

RECURSIVE SortedSeq(_)
\* The elements of a finite set of integers in ascending order.
SortedSeq(S) ==
    IF S = {} THEN <<>>
    ELSE LET m == CHOOSE x \in S : \A y \in S : x <= y
         IN  <<m>> \o SortedSeq(S \ {m})

\* LineHighlighter::print: the rows of the line, in ascending order and
\* without duplicates, that hold at least one occurrence of the needle.
LineHighlighter_print(text, needle, w, height) ==
    SortedSeq({ r \in 0..(height - 1) :
                  \E p \in Occurrences(text, needle) : p \div w = r })

\* Viewport::limit: the window's leading edge.
limit(viewport) == viewport.reverse_index + viewport.rows

(***************************************************************************)
(* RenderedLine                                                            *)
(***************************************************************************)
RenderedLine_new(line, height, found_matches) ==
    [line |-> line, height |-> height, found_matches |-> found_matches]

\* RenderedLine::highlight
highlight(self, text, w) ==
    Some(LineHighlighter_print(self.line, text, w, self.height))

update_found_matches_KeepsOld(self, found_matches) ==
    [self |-> self, ret |-> self.found_matches # found_matches]

update_found_matches_ClobbersHeight(self, found_matches) ==
    IF self.found_matches # found_matches
    THEN [self |-> [self EXCEPT !.found_matches = found_matches,
                                !.height = Len(found_matches)],
          ret |-> TRUE]
    ELSE [self |-> self, ret |-> FALSE]

update_found_matches_AlwaysChanged(self, found_matches) ==
    [self |-> [self EXCEPT !.found_matches = found_matches], ret |-> TRUE]

\* RenderedLine::update_found_matches: the record after the call and the
\* value returned.
update_found_matches(self, found_matches) ==
    IF self.found_matches # found_matches
    THEN [self |-> [self EXCEPT !.found_matches = found_matches], ret |-> TRUE]
    ELSE [self |-> self, ret |-> FALSE]

search_EmptyOnMiss(self, text, w) ==
    LET is_match == contains(self.line, text)
        found_matches == IF is_match THEN highlight(self, text, w)
                         ELSE Some(<<>>)
        upd == update_found_matches(self, found_matches)
    IN  [self |-> upd.self,
         ret |-> is_match,
         prints |-> (IF is_match THEN 1 ELSE 0)
                    + (IF upd.ret /\ ~is_match THEN 1 ELSE 0)]

search_DropsHighlight(self, text, w) ==
    LET is_match == contains(self.line, text)
        upd == update_found_matches(self, None)
    IN  [self |-> upd.self,
         ret |-> is_match,
         prints |-> (IF is_match THEN 1 ELSE 0)
                    + (IF upd.ret /\ ~is_match THEN 1 ELSE 0)]

\* RenderedLine::search: the record after the call, the value returned and
\* the number of times the line was printed.
search(self, text, w) ==
    LET is_match == contains(self.line, text)
        found_matches == IF is_match THEN highlight(self, text, w) ELSE None
        upd == update_found_matches(self, found_matches)
    IN  [self |-> upd.self,
         ret |-> is_match,
         prints |-> (IF is_match THEN 1 ELSE 0)
                    + (IF upd.ret /\ ~is_match THEN 1 ELSE 0)]

\* RenderedLine::match_count; the caller has checked found_matches is Some.
match_count(self) == Len(self.found_matches[1])

(***************************************************************************)
(* Iterator adaptors                                                       *)
(***************************************************************************)
Skip(s, n) == SubSeq(s, n + 1, Len(s))
Take(s, n) == SubSeq(s, 1, Min(n, Len(s)))
Rev(s) == [i \in 1..Len(s) |-> s[Len(s) + 1 - i]]
Enumerate(s) == [i \in 1..Len(s) |-> <<i - 1, s[i]>>]

RECURSIVE Height(_)
\* Height::height: the fold of the heights of an iterator's records.
Height(s) == IF s = <<>> THEN 0 ELSE Head(s).height + Height(Tail(s))

MatchedLine_new(line, match_index) ==
    [line |-> line, match_index |-> match_index]

RECURSIVE find_match(_)
\* FindMatch::find_match over an iterator of (index, record) pairs.
find_match(it) ==
    IF it = <<>> THEN None
    ELSE IF Head(it)[2].found_matches # None
         THEN Some(MatchedLine_new(Head(it)[1], match_count(Head(it)[2]) - 1))
         ELSE find_match(Tail(it))

(***************************************************************************)
(* RenderedLineCollection                                                  *)
(***************************************************************************)
\* A call's result: a value, or a panic.
Ok(v) == [outcome |-> "ok", ret |-> v]
Panic == [outcome |-> "panic", ret |-> None]

matching_ByFoundMatches(es, text) ==
    SelectSeq(es, LAMBDA entry : entry.found_matches # None)

\* RenderedLineCollection::matching: the entries of the new collection.
matching(es, text) ==
    SelectSeq(es, LAMBDA entry : contains(entry.line, text))

\* RenderedLine::match_count as a call: unwrap panics on None.
match_count_call(self) ==
    IF self.found_matches = None THEN Panic ELSE Ok(Some(match_count(self)))

\* Index<usize>::index: panics when out of range.
Index_index(es, _index) ==
    IF _index >= Len(es) THEN Panic ELSE Ok(Some(es[_index + 1]))

\* RenderedLineCollection::height
height(es) == Height(es)

buffer_reverse_index_SkipNext(es, line_index, match_index) ==
    IF \/ line_index >= Len(es)
       \/ es[line_index + 1].found_matches = None
       \/ match_index >= Len(es[line_index + 1].found_matches[1])
    THEN Panic
    ELSE Ok(Some(Height(Skip(es, line_index + 1))
                 - es[line_index + 1].found_matches[1][match_index + 1]))

buffer_reverse_index_AddsOffset(es, line_index, match_index) ==
    IF \/ line_index >= Len(es)
       \/ es[line_index + 1].found_matches = None
       \/ match_index >= Len(es[line_index + 1].found_matches[1])
    THEN Panic
    ELSE Ok(Some(Height(Skip(es, line_index))
                 + es[line_index + 1].found_matches[1][match_index + 1]))

\* RenderedLineCollection::buffer_reverse_index
buffer_reverse_index(es, line_index, match_index) ==
    IF \/ line_index >= Len(es)
       \/ es[line_index + 1].found_matches = None
       \/ match_index >= Len(es[line_index + 1].found_matches[1])
    THEN Panic
    ELSE Ok(Some(Height(Skip(es, line_index))
                 - es[line_index + 1].found_matches[1][match_index + 1]))

is_match_in_viewport_NoLimit(es, matched_line, viewport) ==
    LET accumulated_height == Height(Skip(es, matched_line.line))
    IN  IF matched_line.line >= Len(es) THEN Panic
        ELSE IF accumulated_height >= viewport.reverse_index
        THEN IF es[matched_line.line + 1].found_matches = None THEN Panic
             ELSE Ok(Some(es[matched_line.line + 1].found_matches[1] # <<>>))
        ELSE Ok(Some(FALSE))

\* RenderedLineCollection::is_match_in_viewport
is_match_in_viewport(es, matched_line, viewport) ==
    LET accumulated_height == Height(Skip(es, matched_line.line))
    IN  IF matched_line.line >= Len(es) THEN Panic
        ELSE IF accumulated_height >= viewport.reverse_index
        THEN IF es[matched_line.line + 1].found_matches = None THEN Panic
             ELSE LET fm == es[matched_line.line + 1].found_matches[1]
                  IN  Ok(Some(\E k \in 1..Len(fm) :
                                accumulated_height + fm[k] <= limit(viewport)))
        ELSE Ok(Some(FALSE))

RECURSIVE viewport_match_loop(_, _, _, _)
\* The loop of viewport_match over entries.iter().rev().enumerate(): it is
\* the reversed sequence, i the enumeration index of its head.
viewport_match_loop(it, i, accumulated_height, viewport) ==
    IF it = <<>> THEN None
    ELSE LET line == Head(it)
             fm == IF line.found_matches = None THEN <<>>
                   ELSE line.found_matches[1]
             hits == { j \in 0..(Len(fm) - 1) :
                         accumulated_height + fm[j + 1] <= limit(viewport) }
             next_height == accumulated_height + line.height
         IN  IF /\ accumulated_height >= viewport.reverse_index
                /\ line.found_matches # None
                /\ hits # {}
             THEN Some(MatchedLine_new(i,
                       CHOOSE j \in hits : \A k \in hits : j <= k))
             ELSE IF next_height >= limit(viewport) THEN None
             ELSE viewport_match_loop(Tail(it), i + 1, next_height, viewport)

\* RenderedLineCollection::height_up_to_index
height_up_to_index(es, index) == Height(Take(es, index))

last_lines_height_FromFront(es, count) == Height(Take(es, count))

\* RenderedLineCollection::last_lines_height
last_lines_height(es, count) == Height(Take(Rev(es), count))

\* RenderedLineCollection::viewport_match
viewport_match(es, viewport) == viewport_match_loop(Rev(es), 0, 0, viewport)

last_match_Sentinel(es) ==
    LET found == find_match(Enumerate(Rev(es)))
    IN  IF found = None THEN Ok(Some(MatchedLine_new(0, 0))) ELSE Ok(found)

\* RenderedLineCollection::last_match
last_match(es) ==
    LET found == find_match(Enumerate(Rev(es)))
    IN  IF found = None THEN Panic ELSE Ok(found)

next_match_Inclusive(es, current_index) ==
    find_match(Skip(Enumerate(es), current_index))

\* RenderedLineCollection::next_match
next_match(es, current_index) ==
    find_match(Skip(Enumerate(es), current_index + 1))

previous_match_Inclusive(es, current_index) ==
    find_match(Skip(Rev(Enumerate(es)), Len(es) - current_index - 1))

\* RenderedLineCollection::previous_match
previous_match(es, current_index) ==
    find_match(Skip(Rev(Enumerate(es)), Len(es) - current_index))

(***************************************************************************)
(* The state machine: one action per call on the buffer.                   *)
(***************************************************************************)
NoArg ==
    [line |-> 0, match_index |-> 0, reverse_index |-> 0, rows |-> 0,
     text |-> <<>>, matches |-> <<>>]

Viewports ==
    [reverse_index : 0..MaxReverseIndex, rows : 0..MaxRows]

\* The found_matches a caller passes to create: none, or what the
\* highlighter reported for the line at the current width.
InitialMatches(text, w) ==
    {None} \cup { Some(LineHighlighter_print(text, n, w, WrapHeight(text, w))) :
                    n \in { m \in Needles : contains(text, m) } }

Init ==
    /\ entries = <<>>
    /\ width \in 1..MaxWidth
    /\ op = "default"
    /\ arg = NoArg
    /\ ret = None
    /\ outcome = "ok"
    /\ repaints = 0
    /\ subset = None

\* The event loop is between two events: the previous call has returned
\* and the next call on the buffer may be made.
Idle == op \in {"default", "watch"}

\* Ui::watch: the event loop waits for the next event; the result of the
\* previous call has been consumed.  A collection returned by matching() is
\* held by the caller across the next call and dropped after it.
Watch ==
    /\ ~Idle
    /\ op' = "watch"
    /\ arg' = NoArg
    /\ ret' = None
    /\ outcome' = "ok"
    /\ repaints' = 0
    /\ subset' = IF op = "matching" THEN subset ELSE None
    /\ UNCHANGED <<entries, width>>

\* RenderedLineCollection::create with the given line and found_matches
CreateWith(text, found_matches) ==
    /\ Idle
    /\ entries' = Append(entries,
           RenderedLine_new(text, WrapHeight(text, width), found_matches))
    /\ arg' = [NoArg EXCEPT !.text = text, !.matches = found_matches]
    /\ op' = "create"
    /\ ret' = None
    /\ outcome' = "ok"
    /\ repaints' = 0
    /\ UNCHANGED <<width, subset>>

\* RenderedLineCollection::create
Create ==
    /\ Len(entries) < MaxLen
    /\ \E text \in Texts :
         \E found_matches \in InitialMatches(text, width) :
           CreateWith(text, found_matches)

\* RenderedLine::update_found_matches on the record at index i
UpdateWith(i, found_matches) ==
    LET r == update_found_matches(entries[i + 1], found_matches)
    IN  /\ Idle
        /\ entries' = [entries EXCEPT ![i + 1] = r.self]
        /\ op' = "update_found_matches"
        /\ arg' = [NoArg EXCEPT !.line = i, !.matches = found_matches]
        /\ ret' = Some(r.ret)
        /\ outcome' = "ok"
        /\ repaints' = 0
        /\ UNCHANGED <<width, subset>>

UpdateFoundMatches ==
    \E i \in 0..(Len(entries) - 1) :
      \E found_matches \in InitialMatches(entries[i + 1].line, width) :
        UpdateWith(i, found_matches)

\* RenderedLineCollection::clear
Clear ==
    /\ Idle
    /\ entries' = <<>>
    /\ op' = "clear"
    /\ arg' = NoArg
    /\ ret' = None
    /\ outcome' = "ok"
    /\ repaints' = 0
    /\ UNCHANGED <<width, subset>>

\* RenderedLine::search on the record at index i
Search ==
    /\ Idle
    /\ \E i \in 0..(Len(entries) - 1) :
         \E text \in Needles :
           LET r == search(entries[i + 1], text, width)
           IN  /\ entries' = [entries EXCEPT ![i + 1] = r.self]
               /\ op' = "search"
               /\ arg' = [NoArg EXCEPT !.line = i, !.text = text]
               /\ ret' = Some(r.ret)
               /\ outcome' = "ok"
               /\ repaints' = r.prints
               /\ UNCHANGED <<width, subset>>

\* A query: the buffer is left alone, the result is recorded.
Query(name, a, r) ==
    /\ Idle
    /\ op' = name
    /\ arg' = a
    /\ ret' = r.ret
    /\ outcome' = r.outcome
    /\ repaints' = 0
    /\ UNCHANGED <<entries, width, subset>>

BufferReverseIndex ==
    \E line_index \in 0..(MaxLen - 1) :
      \E match_index \in 0..MaxMatchIndex :
        Query("buffer_reverse_index",
              [NoArg EXCEPT !.line = line_index, !.match_index = match_index],
              buffer_reverse_index(entries, line_index, match_index))

IsMatchInViewport ==
    \E line_index \in 0..(MaxLen - 1) :
      \E match_index \in 0..MaxMatchIndex :
        \E viewport \in Viewports :
          Query("is_match_in_viewport",
                [NoArg EXCEPT !.line = line_index,
                              !.match_index = match_index,
                              !.reverse_index = viewport.reverse_index,
                              !.rows = viewport.rows],
                is_match_in_viewport(entries,
                    MatchedLine_new(line_index, match_index), viewport))

ViewportMatch ==
    \E viewport \in Viewports :
      Query("viewport_match",
            [NoArg EXCEPT !.reverse_index = viewport.reverse_index,
                          !.rows = viewport.rows],
            Ok(viewport_match(entries, viewport)))

LastMatch ==
    Query("last_match", NoArg, last_match(entries))

NextMatch ==
    \E current_index \in 0..(Len(entries) - 1) :
      Query("next_match", [NoArg EXCEPT !.line = current_index],
            Ok(next_match(entries, current_index)))

PreviousMatch ==
    \E current_index \in 0..(Len(entries) - 1) :
      Query("previous_match", [NoArg EXCEPT !.line = current_index],
            Ok(previous_match(entries, current_index)))

HeightOf ==
    Query("height", NoArg, Ok(Some(height(entries))))

HeightUpToIndex ==
    \E index \in 0..MaxLen :
      Query("height_up_to_index", [NoArg EXCEPT !.line = index],
            Ok(Some(height_up_to_index(entries, index))))

LastLinesHeight ==
    \E count \in 0..MaxLen :
      Query("last_lines_height", [NoArg EXCEPT !.line = count],
            Ok(Some(last_lines_height(entries, count))))

\* RenderedLine::match_count on the record at index i
MatchCount ==
    \E i \in 0..(Len(entries) - 1) :
      Query("match_count", [NoArg EXCEPT !.line = i],
            match_count_call(entries[i + 1]))

\* Index<usize>::index
IndexOf ==
    \E _index \in 0..MaxLen :
      Query("index", [NoArg EXCEPT !.line = _index], Index_index(entries, _index))

Next ==
    \/ Watch
    \/ Create
    \/ Clear
    \/ Search
    \/ BufferReverseIndex
    \/ IsMatchInViewport
    \/ ViewportMatch
    \/ LastMatch
    \/ NextMatch
    \/ PreviousMatch
    \/ HeightOf
    \/ HeightUpToIndex
    \/ LastLinesHeight
    \/ MatchCount
    \/ IndexOf
    \/ UpdateFoundMatches

Spec == Init /\ [][Next]_vars

(***************************************************************************)
(* The buffer when create and update_found_matches are given any           *)
(* found_matches, not only those the highlighter reports.                  *)
(***************************************************************************)
AnyMatches ==
    { None, Some(<<>>), Some(<<0>>), Some(<<1>>), Some(<<2>>),
      Some(<<0, 1>>), Some(<<1, 0>>), Some(<<0, 0>>) }

CreateAny ==
    /\ Len(entries) < MaxAnyLen
    /\ \E text \in Texts :
         \E found_matches \in AnyMatches :
           CreateWith(text, found_matches)

UpdateAny ==
    \E i \in 0..(Len(entries) - 1) :
      \E found_matches \in AnyMatches :
        UpdateWith(i, found_matches)

NextAnyInput ==
    \/ Watch
    \/ CreateAny
    \/ UpdateAny
    \/ Search
    \/ Clear

SpecAnyInput == Init /\ [][NextAnyInput]_vars

(***************************************************************************)
(* The buffer together with a collection returned by matching().           *)
(***************************************************************************)
\* RenderedLineCollection::matching
Matching ==
    /\ Idle
    /\ subset = None
    /\ \E text \in Needles :
         /\ subset' = Some(matching(entries, text))
         /\ arg' = [NoArg EXCEPT !.text = text]
    /\ op' = "matching"
    /\ ret' = None
    /\ outcome' = "ok"
    /\ repaints' = 0
    /\ UNCHANGED <<entries, width>>

\* RenderedLineCollection::create on the returned collection
SubsetCreate ==
    /\ Idle
    /\ subset # None
    /\ Len(subset[1]) < MaxLen
    /\ \E text \in Texts :
         \E found_matches \in InitialMatches(text, width) :
           /\ subset' = Some(Append(subset[1],
                  RenderedLine_new(text, WrapHeight(text, width), found_matches)))
           /\ arg' = [NoArg EXCEPT !.text = text]
    /\ op' = "subset_create"
    /\ ret' = None
    /\ outcome' = "ok"
    /\ repaints' = 0
    /\ UNCHANGED <<entries, width>>

\* RenderedLineCollection::clear on the returned collection
SubsetClear ==
    /\ Idle
    /\ subset # None
    /\ subset' = Some(<<>>)
    /\ op' = "subset_clear"
    /\ arg' = NoArg
    /\ ret' = None
    /\ outcome' = "ok"
    /\ repaints' = 0
    /\ UNCHANGED <<entries, width>>

\* RenderedLine::search on a record of the returned collection
SubsetSearch ==
    /\ Idle
    /\ subset # None
    /\ \E i \in 0..(Len(subset[1]) - 1) :
         \E text \in Needles :
           LET r == search(subset[1][i + 1], text, width)
           IN  /\ subset' = Some([subset[1] EXCEPT ![i + 1] = r.self])
               /\ op' = "subset_search"
               /\ arg' = [NoArg EXCEPT !.line = i, !.text = text]
               /\ ret' = Some(r.ret)
               /\ outcome' = "ok"
               /\ repaints' = r.prints
               /\ UNCHANGED <<entries, width>>

NextSubset ==
    \/ Watch
    \/ Create
    \/ Clear
    \/ Search
    \/ Matching
    \/ SubsetCreate
    \/ SubsetClear
    \/ SubsetSearch

SpecSubset == Init /\ [][NextSubset]_vars

(***************************************************************************)
(* Vocabulary of the properties: matches and their rows, written without   *)
(* the buffer's own operations.                                            *)
(***************************************************************************)
\* Buffer indices of the records whose found_matches is present.
MatchingLines(es) ==
    { l \in 0..(Len(es) - 1) : es[l + 1].found_matches # None }

\* The cursors that designate an existing match.
Matches(es) ==
    UNION { { [line |-> l, match_index |-> m] :
                m \in 0..(Len(es[l + 1].found_matches[1]) - 1) } :
            l \in MatchingLines(es) }

RECURSIVE RowsFrom(_, _)
\* Sum of the heights of the records at buffer indices l, l + 1, ...
RowsFrom(es, l) ==
    IF l >= Len(es) THEN 0 ELSE es[l + 1].height + RowsFrom(es, l + 1)

\* Rows from the bottom of the buffer to the row of match c.
ReverseIndexOf(es, c) ==
    RowsFrom(es, c.line) - es[c.line + 1].found_matches[1][c.match_index + 1]

ArgCursor == [line |-> arg.line, match_index |-> arg.match_index]
ArgViewport == [reverse_index |-> arg.reverse_index, rows |-> arg.rows]

\* Matches whose row lies in [reverse_index, limit()].
VisibleMatches(es, viewport) ==
    { c \in Matches(es) :
        /\ viewport.reverse_index <= ReverseIndexOf(es, c)
        /\ ReverseIndexOf(es, c) <= limit(viewport) }

SetMax(S) == CHOOSE x \in S : \A y \in S : y <= x
SetMin(S) == CHOOSE x \in S : \A y \in S : x <= y

\* The cursor on the last match of the record at buffer index l.
LastOfLine(es, l) ==
    [line |-> l, match_index |-> Len(es[l + 1].found_matches[1]) - 1]

(***************************************************************************)
(* Properties                                                              *)
(***************************************************************************)

\* C1: visibleMatch(viewport) returns the cursor (buffer index, match index)
\* of the match with the smallest reverseIndexOf among the matches whose
\* reverseIndexOf lies in [reverse_index, limit()], and none exactly when
\* there is no such match.
C1_VisibleMatchIsClosestToBottom ==
    (op = "viewport_match") =>
        LET V == VisibleMatches(entries, ArgViewport)
        IN  IF V = {} THEN ret = None
            ELSE /\ ret # None
                 /\ ret[1] \in V
                 /\ \A c \in V :
                      ReverseIndexOf(entries, ret[1]) <= ReverseIndexOf(entries, c)

\* C2: with at least one match in the buffer and a viewport covering the
\* whole buffer (reverse_index 0, rows >= total height), visibleMatch
\* returns the same cursor as lastMatch.
C2_FullViewportMatchIsLastMatch ==
    ( /\ op = "viewport_match"
      /\ MatchingLines(entries) # {}
      /\ arg.reverse_index = 0
      /\ arg.rows >= height(entries) )
    => ret = last_match(entries).ret

\* C3: with at least one match in the buffer, lastMatch returns the cursor
\* on the largest buffer index whose record has found_matches present, at
\* that record's last match index.
C3_LastMatchIsLargestBufferIndex ==
    (op = "last_match" /\ MatchingLines(entries) # {}) =>
        /\ outcome = "ok"
        /\ ret = Some(LastOfLine(entries, SetMax(MatchingLines(entries))))

\* C4: for a cursor on an existing match, isMatchVisible is true exactly
\* when reverse_index <= reverseIndexOf(cursor) <= limit().
C4_IsMatchVisibleIffRowInWindow ==
    (op = "is_match_in_viewport" /\ ArgCursor \in Matches(entries)) =>
        /\ outcome = "ok"
        /\ ret = Some(ArgCursor \in VisibleMatches(entries, ArgViewport))

\* C5: for a cursor on an existing match whose row lies strictly above the
\* window's leading edge (reverseIndexOf > limit()), isMatchVisible is false.
C5_AboveLimitIsNotVisible ==
    ( /\ op = "is_match_in_viewport"
      /\ ArgCursor \in Matches(entries)
      /\ ReverseIndexOf(entries, ArgCursor) > limit(ArgViewport) )
    => (outcome = "ok" /\ ret = Some(FALSE))

\* C5 witness: the row is above the leading edge while the lower bound
\* reverse_index is satisfied, and the call answered false.
C5_Witness ==
    /\ op = "is_match_in_viewport"
    /\ ArgCursor \in Matches(entries)
    /\ ReverseIndexOf(entries, ArgCursor) > limit(ArgViewport)
    /\ ReverseIndexOf(entries, ArgCursor) >= arg.reverse_index
    /\ ret = Some(FALSE)

\* C6: for a cursor on an existing match, reverseIndexOf returns the sum of
\* the heights of the records from the line to the end of the buffer minus
\* the match's row offset.
C6_ReverseIndexIsSuffixHeightMinusOffset ==
    (op = "buffer_reverse_index" /\ ArgCursor \in Matches(entries)) =>
        /\ outcome = "ok"
        /\ ret = Some(RowsFrom(entries, arg.line)
                      - entries[arg.line + 1].found_matches[1][arg.match_index + 1])

\* C6 witness: heights [1, 2, 1], only line 1 carries [0, 1], and
\* reverseIndexOf(1, 1) returned 2.
C6_Witness ==
    /\ op = "buffer_reverse_index"
    /\ Len(entries) = 3
    /\ [i \in 1..3 |-> entries[i].height] = <<1, 2, 1>>
    /\ [i \in 1..3 |-> entries[i].found_matches] = <<None, Some(<<0, 1>>), None>>
    /\ arg.line = 1
    /\ arg.match_index = 1
    /\ ret = Some(2)

\* C7: nextMatch(fromIndex) returns the cursor on the smallest matching
\* index above fromIndex, previousMatch(fromIndex) the cursor on the largest
\* matching index below it, each at the record's last match index, and none
\* when there is no such record.
C7_NextAndPreviousAreStrict ==
    /\ (op = "next_match") =>
          LET J == { j \in MatchingLines(entries) : j > arg.line }
          IN  ret = IF J = {} THEN None
                    ELSE Some(LastOfLine(entries, SetMin(J)))
    /\ (op = "previous_match") =>
          LET J == { j \in MatchingLines(entries) : j < arg.line }
          IN  ret = IF J = {} THEN None
                    ELSE Some(LastOfLine(entries, SetMax(J)))

\* C7 witness: nextMatch started on a matching record, skipped a record
\* without matches and returned a later record's last match.
C7_Witness ==
    /\ op = "next_match"
    /\ arg.line \in MatchingLines(entries)
    /\ ret # None
    /\ ret[1].line > arg.line + 1
    /\ ret[1].match_index = 1

\* C8: in a buffer with at least two matching records, when nextMatch(i)
\* returns a cursor c and previousMatch(c.line) returns p, p.line <= i.
C8_PreviousOfNextDoesNotOvershoot ==
    ( /\ op = "previous_match"
      /\ ret # None
      /\ Cardinality(MatchingLines(entries)) >= 2 )
    => \A i \in 0..(Len(entries) - 1) :
          ( /\ next_match(entries, i) # None
            /\ next_match(entries, i)[1].line = arg.line )
          => ret[1].line <= i

\* C8 witness: previousMatch was called on the line nextMatch(i) returns for
\* some i, and returned a cursor.
C8_Witness ==
    /\ op = "previous_match"
    /\ ret # None
    /\ Cardinality(MatchingLines(entries)) >= 2
    /\ \E i \in 0..(Len(entries) - 1) :
          /\ next_match(entries, i) # None
          /\ next_match(entries, i)[1].line = arg.line

C10_MissRepaintsOnceOnTransition ==
    [][ ( /\ op' = "search"
          /\ ~contains(entries[arg'.line + 1].line, arg'.text) )
        => /\ ret' = Some(FALSE)
           /\ entries'[arg'.line + 1].found_matches = None
           /\ (entries[arg'.line + 1].found_matches # None => repaints' = 1)
           /\ (entries[arg'.line + 1].found_matches = None => repaints' = 0)
      ]_vars

\* C10 witness: a non-matching search erased a highlight and repainted once.
C10_Witness ==
    /\ op = "search"
    /\ ret = Some(FALSE)
    /\ entries[arg.line + 1].found_matches = None
    /\ repaints = 1

\* C11: search("") on a record returns false and leaves the record's
\* found_matches absent, whatever appends and searches came before.
C11_EmptySearchResetsRecord ==
    (op = "search" /\ arg.text = <<>>) =>
        /\ ret = Some(FALSE)
        /\ entries[arg.line + 1].found_matches = None

\* C12: for every split point n in 0..length,
\* heightUpTo(n) + lastLinesHeight(length - n) = totalHeight().
C12_PrefixPlusSuffixIsTotal ==
    /\ (op = "height_up_to_index" /\ arg.line <= Len(entries)) =>
          ret[1] + last_lines_height(entries, Len(entries) - arg.line)
            = height(entries)
    /\ (op = "last_lines_height" /\ arg.line <= Len(entries)) =>
          height_up_to_index(entries, Len(entries) - arg.line) + ret[1]
            = height(entries)
    /\ (op = "height") =>
          \A n \in 0..Len(entries) :
            height_up_to_index(entries, n)
              + last_lines_height(entries, Len(entries) - n) = ret[1]

\* C12 witness: heightUpTo was asked at an inner split point of a buffer
\* whose first and last records differ in height.
C12_Witness ==
    /\ op = "height_up_to_index"
    /\ arg.line > 0
    /\ arg.line < Len(entries)
    /\ entries[1].height # entries[Len(entries)].height
    /\ ret[1] < height(entries)

RECURSIVE RecordsContaining(_, _)
\* The records of es whose text contains needle, oldest first.
RecordsContaining(es, needle) ==
    IF es = <<>> THEN <<>>
    ELSE LET last == es[Len(es)]
         IN  RecordsContaining(SubSeq(es, 1, Len(es) - 1), needle)
               \o (IF contains(last.line, needle) THEN <<last>> ELSE <<>>)

\* C13: matchingSubset(needle) returns the records whose text contains the
\* needle, in their original order, and leaves the original unchanged; a
\* later append, clear or search on the original leaves the returned buffer
\* unchanged, and one on the returned buffer leaves the original unchanged.
C13_MatchingSubsetIsIndependentFilter ==
    [][ /\ (op' = "matching") =>
              /\ entries' = entries
              /\ subset' = Some(RecordsContaining(entries, arg'.text))
        /\ (op' \in {"create", "clear", "search"}) => subset' = subset
        /\ (op' \in {"subset_create", "subset_clear", "subset_search"}) =>
              entries' = entries
      ]_vars

\* C13 witness: matching kept two distinguishable records in order and
\* left one out.
C13_Witness ==
    /\ op = "matching"
    /\ subset # None
    /\ Len(subset[1]) = 2
    /\ Len(entries) = 3
    /\ subset[1][1] # subset[1][2]
    /\ subset[1] = <<entries[2], entries[3]>>

\* C14: matchCount on a record whose found_matches is absent, lastMatch on
\* a buffer without any match (the empty buffer included) and indexed
\* access at an index >= length each fail fatally and return nothing.
C14_PreconditionViolationsPanic ==
    /\ ( /\ op = "match_count"
          /\ entries[arg.line + 1].found_matches = None )
       => (outcome = "panic" /\ ret = None)
    /\ (op = "last_match" /\ MatchingLines(entries) = {})
       => (outcome = "panic" /\ ret = None)
    /\ (op = "index" /\ arg.line >= Len(entries))
       => (outcome = "panic" /\ ret = None)

\* C14 witness: lastMatch was called on a non-empty buffer in which no
\* record has found_matches present, and panicked.
C14_Witness ==
    /\ op = "last_match"
    /\ Len(entries) > 0
    /\ MatchingLines(entries) = {}
    /\ outcome = "panic"

\* C15: updateFoundMatches(new) leaves found_matches equal to new and
\* returns true exactly when new differs from the value held before.
C15_UpdateReportsChange ==
    [][ (op' = "update_found_matches") =>
          /\ entries'[arg'.line + 1].found_matches = arg'.matches
          /\ ret' = Some(entries[arg'.line + 1].found_matches # arg'.matches)
      ]_vars

\* C15 witness: a call with the value already held returned false.
C15_Witness ==
    /\ op = "update_found_matches"
    /\ arg.matches # None
    /\ entries[arg.line + 1].found_matches = arg.matches
    /\ ret = Some(FALSE)

\* Absent, or a non-empty strictly increasing sequence of offsets in [0, h).
ValidMatches(found_matches, h) ==
    \/ found_matches = None
    \/ LET fm == found_matches[1]
       IN  /\ Len(fm) >= 1
           /\ \A k \in 1..Len(fm) : fm[k] >= 0 /\ fm[k] < h
           /\ \A k \in 1..(Len(fm) - 1) : fm[k] < fm[k + 1]

AllValid(es) ==
    \A k \in 1..Len(es) : ValidMatches(es[k].found_matches, es[k].height)

C17_ReturnedCursorDesignatesMatch ==
    ( /\ op \in {"last_match", "viewport_match", "next_match", "previous_match"}
      /\ outcome = "ok"
      /\ ret # None )
    => ret[1] \in Matches(entries)

QueryOps ==
    { "height", "height_up_to_index", "last_lines_height",
      "buffer_reverse_index", "is_match_in_viewport", "viewport_match",
      "last_match", "next_match", "previous_match" }

\* C18: search and updateFoundMatches change nothing but the targeted
\* record's found_matches (length, order, texts, heights, total height and
\* the other records stay); append keeps the existing records in place and
\* adds exactly one at the end; the queries change nothing.
C18_Frame ==
    [][ /\ (op' \in {"search", "update_found_matches"}) =>
              /\ Len(entries') = Len(entries)
              /\ \A k \in 1..Len(entries) :
                    /\ entries'[k].line = entries[k].line
                    /\ entries'[k].height = entries[k].height
                    /\ (k # arg'.line + 1) => entries'[k] = entries[k]
              /\ height(entries') = height(entries)
        /\ (op' = "create") =>
              /\ Len(entries') = Len(entries) + 1
              /\ SubSeq(entries', 1, Len(entries)) = entries
        /\ (op' \in QueryOps) => entries' = entries
      ]_vars

\* C18 witness: a search replaced the found_matches of the middle record of
\* three, the other two carrying matches of their own.
C18_Witness ==
    /\ op = "search"
    /\ Len(entries) = 3
    /\ arg.line = 1
    /\ ret = Some(FALSE)
    /\ repaints = 1
    /\ entries[1].found_matches # None
    /\ entries[3].found_matches # None

\* Cursor c comes before cursor e in cursor order.
CursorBefore(c, e) ==
    \/ c.line < e.line
    \/ (c.line = e.line /\ c.match_index < e.match_index)

\* C19: on a buffer whose records have height >= 1 and valid found_matches,
\* reverseIndexOf lies in [1, totalHeight()] and is strictly greater than
\* reverseIndexOf of every match later in cursor order.
C19_ReverseIndexDecreasesInCursorOrder ==
    ( /\ op = "buffer_reverse_index"
      /\ ArgCursor \in Matches(entries)
      /\ AllValid(entries)
      /\ \A k \in 1..Len(entries) : entries[k].height >= 1 )
    => /\ outcome = "ok"
       /\ 1 <= ret[1]
       /\ ret[1] <= height(entries)
       /\ \A e \in Matches(entries) :
             CursorBefore(ArgCursor, e) =>
               ret[1] > buffer_reverse_index(entries, e.line, e.match_index).ret[1]

\* C19 witness: reverseIndexOf was asked for a match that has a later match
\* in its own record and one in a later record.
C19_Witness ==
    /\ op = "buffer_reverse_index"
    /\ ArgCursor \in Matches(entries)
    /\ outcome = "ok"
    /\ \E e \in Matches(entries) :
          e.line = arg.line /\ e.match_index > arg.match_index
    /\ \E e \in Matches(entries) : e.line > arg.line

====
